---- MODULE Spec2Model ----
(***************************************************************************)
(* A model of MOCCASIN's converter (moccasin/converter/converter.py): the  *)
(* translation of a parsed MATLAB scope tree into an abstract model made   *)
(* of a compartment, state entities, parameters, initial assignments and   *)
(* rate rules, by create_raterule_model (SBML) and create_xpp_elements     *)
(* (XPP).                                                                  *)
(*                                                                         *)
(* Text is modelled as a sequence of one-character strings, so that the    *)
(* code's string operations (concatenation, startswith, the regular        *)
(* expressions, str(), format()) are computed and not assumed.  A Python   *)
(* dict is modelled as a sequence of key/value pairs with unique keys: the *)
(* order of the sequence is the order in which the dict iterates.          *)
(***************************************************************************)
EXTENDS Integers, Sequences, FiniteSets, TLC

\* ------------------------------------------------------------------------
\* Bounds of the model.
\* ------------------------------------------------------------------------

\* The longest initial-condition vector and derivative array of the inputs.
MaxLen == 3

\* The number of translations made of one scope tree in one process.
MaxRuns == 2
MaxCalls == 3

\* ------------------------------------------------------------------------
\* Text.
\* ------------------------------------------------------------------------

Digits == <<"0", "1", "2", "3", "4", "5", "6", "7", "8", "9">>

IsDigit(c) == \E d \in 1..Len(Digits) : Digits[d] = c

DigitValue(c) == (CHOOSE d \in 1..Len(Digits) : Digits[d] = c) - 1

Max(S) == CHOOSE x \in S : \A y \in S : y <= x

RECURSIVE Repeat(_, _)
Repeat(c, n) == IF n <= 0 THEN <<>> ELSE <<c>> \o Repeat(c, n - 1)

\* str(n) of a natural number.
RECURSIVE NatToStr(_)
NatToStr(n) ==
    IF n < 10 THEN <<Digits[n + 1]>>
    ELSE NatToStr(n \div 10) \o <<Digits[(n % 10) + 1]>>

\* s.startswith(prefix)
StartsWith(s, prefix) ==
    /\ Len(s) >= Len(prefix)
    /\ \A i \in 1..Len(prefix) : s[i] = prefix[i]

\* c in s, for a character c.
Contains(s, c) == \E i \in 1..Len(s) : s[i] = c

\* s[i..] starts with pat.
MatchAt(s, i, pat) ==
    /\ i + Len(pat) - 1 <= Len(s)
    /\ \A j \in 1..Len(pat) : s[i + j - 1] = pat[j]

\* The number of digits of s from position i on.
RECURSIVE DigitRun(_, _)
DigitRun(s, i) ==
    IF i <= Len(s) /\ IsDigit(s[i]) THEN 1 + DigitRun(s, i + 1) ELSE 0

\* Python's `in` on a list.
InSeq(x, s) == \E i \in 1..Len(s) : s[i] = x

RECURSIVE Flatten(_)
Flatten(ss) == IF ss = <<>> THEN <<>> ELSE Head(ss) \o Flatten(Tail(ss))

\* ------------------------------------------------------------------------
\* Dicts: sequences of [k, v] pairs with unique keys, in iteration order.
\* ------------------------------------------------------------------------

Keys(d) == [i \in 1..Len(d) |-> d[i].k]

Has(d, key) == \E i \in 1..Len(d) : d[i].k = key

Get(d, key) == d[CHOOSE i \in 1..Len(d) : d[i].k = key].v

\* d[key] = val
Put(d, key, val) ==
    IF Has(d, key)
    THEN [i \in 1..Len(d) |-> IF d[i].k = key THEN [k |-> key, v |-> val] ELSE d[i]]
    ELSE Append(d, [k |-> key, v |-> val])

\* d.update(e), and dict(chain(d.items(), e.items())): the bindings of e win.
RECURSIVE Update(_, _)
Update(d, e) ==
    IF e = <<>> THEN d ELSE Update(Put(d, Head(e).k, Head(e).v), Tail(e))

\* ------------------------------------------------------------------------
\* Expression trees, as the converter reads them.  A node has one key (its
\* kind); `name` is the text of an identifier, a number, an operator or the
\* name of a reference or handle; `args` are subscripts, call arguments,
\* operands or the parameters of an anonymous function; `rows` are the rows
\* of an array (an anonymous function keeps its body as its only entry).
\* ------------------------------------------------------------------------

Node(kind, name, args, rows) ==
    [kind |-> kind, name |-> name, args |-> args, rows |-> rows]

Id(name) == Node("identifier", name, <<>>, <<>>)
Num(text) == Node("number", text, <<>>, <<>>)
Arr(rows) == Node("array", <<>>, <<>>, rows)
ARef(name, subs) == Node("array ref", name, subs, <<>>)
Call(name, args) == Node("array or function", name, args, <<>>)
FunHandle(name) == Node("function handle", name, <<>>, <<>>)
AnonFun(params, body) == Node("anon handle", <<>>, params, <<<<body>>>>)
Bin(op, l, r) == Node("binop", <<op>>, <<l, r>>, <<>>)
Colon == Node("colon", <<":">>, <<>>, <<>>)

\* The body of an anonymous function handle: func['function definition'].
Body(func) == func.rows[1][1]

\* `key in pr`: a bare array and an array reference are both kept under
\* the key 'array' (the first has a 'row list', the second a 'name' and a
\* 'subscript list'); both kinds of handle are kept under 'function handle'.
HasKey(pr, key) ==
    CASE key = "array" -> pr.kind \in {"array", "array ref"}
      [] key = "function handle" -> pr.kind \in {"function handle", "anon handle"}
      [] OTHER -> pr.kind = key

\* A value no text equals: the ValueError munge_reference raises, as it
\* travels up through the formula under construction.
Raise == <<"ValueError">>

\* The sum of the first digits of a text as a number: int(text).
RECURSIVE DigitsToNat(_)
DigitsToNat(s) ==
    IF s = <<>> THEN 0
    ELSE 10 * DigitsToNat(SubSeq(s, 1, Len(s) - 1)) + DigitValue(s[Len(s)])

\* float(pr['number']), in thousandths: "0.348" is 348 and "1" is 1000.
ParseFloat(text) ==
    LET dot == IF Contains(text, ".")
               THEN CHOOSE i \in 1..Len(text) : text[i] = "."
               ELSE Len(text) + 1
        whole == SubSeq(text, 1, dot - 1)
        frac == SubSeq(SubSeq(text, dot + 1, Len(text)) \o <<"0", "0", "0">>, 1, 3)
    IN  DigitsToNat(whole) * 1000 + DigitsToNat(frac)

terminal_value(pr) ==
    IF HasKey(pr, "identifier") THEN pr.name
    ELSE IF HasKey(pr, "number") THEN ParseFloat(pr.name)
    ELSE <<>>

\* ------------------------------------------------------------------------
\* Scopes.
\* ------------------------------------------------------------------------

Scope(name, parameters, returns, assignments, calls, functions, types) ==
    [name |-> name, parameters |-> parameters, returns |-> returns,
     assignments |-> assignments, calls |-> calls, functions |-> functions,
     types |-> types]

RECURSIVE get_all_assignments(_)
RECURSIVE UpdateAllAssignments(_, _)
UpdateAllAssignments(assignments, functions) ==
    IF functions = <<>> THEN assignments
    ELSE UpdateAllAssignments(
             Update(assignments, get_all_assignments(Head(functions).v)),
             Tail(functions))

get_all_assignments(scope) ==
    UpdateAllAssignments(scope.assignments, scope.functions)

RECURSIVE get_all_function_calls(_)
RECURSIVE UpdateAllCalls(_, _)
UpdateAllCalls(calls, functions) ==
    IF functions = <<>> THEN calls
    ELSE UpdateAllCalls(
             Update(calls, get_all_function_calls(Head(functions).v)),
             Tail(functions))

get_all_function_calls(scope) ==
    UpdateAllCalls(scope.calls, scope.functions)

\* name_is_structured, had the bracket of an output list not been looked for.
name_is_structured_no_bracket(name) ==
    Contains(name, "(") \/ Contains(name, "{")

name_is_structured(name) ==
    Contains(name, "[") \/ Contains(name, "(") \/ Contains(name, "{")

\* Whether the text `name` is an identifier somewhere in the expression.
RECURSIVE name_mentioned_in_rhs(_, _)
name_mentioned_in_rhs(name, pr) ==
    \/ HasKey(pr, "identifier") /\ pr.name = name
    \/ HasKey(pr, "array or function") /\ pr.name = name
    \/ \E i \in 1..Len(pr.args) : name_mentioned_in_rhs(name, pr.args[i])

\* The first left-hand side, in the scope's own assignments, whose
\* right-hand side mentions the name; <<>> stands for None.
get_lhs_for_rhs(name, scope) ==
    LET hits == {i \in 1..Len(scope.assignments) :
                    name_mentioned_in_rhs(name, scope.assignments[i].v)}
    IN  IF hits = {} THEN <<>>
        ELSE scope.assignments[CHOOSE i \in hits : \A j \in hits : i <= j].k

get_function_declaration(name, scope) ==
    IF Has(scope.functions, name) THEN <<Get(scope.functions, name)>> ELSE <<>>

is_row_vector(matrix) ==
    Len(matrix.rows) = 1 /\ Len(matrix.rows[1]) >= 1

\* vector_length, had it counted the entries of the first row in every case.
vector_length_first_row(matrix) == Len(matrix.rows[1])

vector_length(matrix) ==
    IF is_row_vector(matrix) THEN Len(matrix.rows[1]) ELSE Len(matrix.rows)

\* The entry mloop hands to its function at the 0-based index i.
mloop_entry(matrix, i) ==
    IF is_row_vector(matrix) THEN matrix.rows[1][i + 1] ELSE matrix.rows[i + 1][1]

inferred_type(name, scope) ==
    IF Has(scope.types, name) THEN Get(scope.types, name) ELSE "None"

\* The longest run of underscores in a name.
LongestRun(name) ==
    Max({0} \cup {n \in 1..Len(name) :
                     \E i \in 1..(Len(name) - n + 1) :
                        \A j \in i..(i + n - 1) : name[j] = "_"})

RECURSIVE num_underscores(_)
num_underscores(scope) ==
    Max({0}
        \cup {LongestRun(scope.assignments[i].k) : i \in 1..Len(scope.assignments)}
        \cup {num_underscores(scope.functions[i].v) : i \in 1..Len(scope.functions)})

rename(base, tail, underscores) == base \o Repeat("_", underscores) \o tail

\* ------------------------------------------------------------------------
\* The two regular-expression rewrites.
\* ------------------------------------------------------------------------

\* re.sub(r'\[[^\]]+,([^\]]+)\]', r'\1', s) from position i on: every
\* bracketed list with a comma is replaced by what follows its last comma.
RECURSIVE SubOutputList(_, _)
SubOutputList(s, i) ==
    IF i > Len(s) THEN <<>>
    ELSE LET closes == {e \in (i + 1)..Len(s) : s[e] = "]"}
             close == CHOOSE e \in closes : \A f \in closes : e <= f
             commas == IF closes = {} THEN {}
                       ELSE {c \in (i + 2)..(close - 2) : s[c] = ","}
         IN  IF s[i] = "[" /\ commas # {}
             THEN SubSeq(s, Max(commas) + 1, close - 1) \o SubOutputList(s, close + 1)
             ELSE <<s[i]>> \o SubOutputList(s, i + 1)

\* re.sub(pat + r'(\d+)', rep + r'\1', s) from position i on, for literal
\* texts pat and rep.
RECURSIVE SubIndexed(_, _, _, _)
SubIndexed(s, i, pat, rep) ==
    IF i > Len(s) THEN <<>>
    ELSE LET d == IF MatchAt(s, i, pat) THEN DigitRun(s, i + Len(pat)) ELSE 0
         IN  IF d >= 1
             THEN rep \o SubSeq(s, i + Len(pat), i + Len(pat) + d - 1)
                      \o SubIndexed(s, i + Len(pat) + d, pat, rep)
             ELSE <<s[i]>> \o SubIndexed(s, i + 1, pat, rep)

\* ------------------------------------------------------------------------
\* Formula text.
\* ------------------------------------------------------------------------

\* Texts joined with a separator; Raise if one of them is Raise.
RECURSIVE Join(_, _)
Join(texts, sep) ==
    IF texts = <<>> THEN <<>>
    ELSE IF Len(texts) = 1 THEN Head(texts)
    ELSE LET rest == Join(Tail(texts), sep)
         IN  IF Head(texts) = Raise \/ rest = Raise THEN Raise
             ELSE Head(texts) \o sep \o rest

\* MatlabGrammar.make_key: the plain text of an expression.
RECURSIVE make_key(_)
make_key(pr) ==
    CASE pr.kind \in {"identifier", "number", "colon"} -> pr.name
      [] pr.kind \in {"array ref", "array or function"} ->
            pr.name \o <<"(">>
                \o Join([i \in 1..Len(pr.args) |-> make_key(pr.args[i])], <<",">>)
                \o <<")">>
      [] pr.kind = "binop" -> make_key(pr.args[1]) \o pr.name \o make_key(pr.args[2])
      [] pr.kind = "function handle" -> <<"@">> \o pr.name
      [] OTHER -> <<"[">> \o <<"]">>

\* What one subscript adds to the flattened name.
munge_subscript(element, name, scope) ==
    IF HasKey(element, "number") THEN <<"_">> \o element.name
    ELSE IF HasKey(element, "identifier")
    THEN LET assignments == get_all_assignments(scope)
         IN  IF ~Has(assignments, element.name) THEN Raise
             ELSE IF HasKey(Get(assignments, element.name), "number")
             THEN <<"_">> \o Get(assignments, element.name).name
             ELSE Raise
    ELSE <<>>

munge_reference(pr, scope, underscores) ==
    IF inferred_type(pr.name, scope) # "variable" THEN make_key(pr)
    ELSE LET parts == [i \in 1..Len(pr.args) |->
                          munge_subscript(pr.args[i], pr.name, scope)]
         IN  IF \E i \in 1..Len(parts) : parts[i] = Raise THEN Raise
             ELSE pr.name \o Repeat("_", underscores - 1) \o Flatten(parts)

\* MatlabGrammar.make_formula with atrans = munge_reference: infix text,
\* left to right, array references rewritten by munge_reference.
RECURSIVE make_formula(_, _, _)
make_formula(pr, scope, underscores) ==
    CASE pr.kind \in {"identifier", "number", "colon"} -> pr.name
      [] pr.kind = "array ref" -> munge_reference(pr, scope, underscores)
      [] pr.kind = "array or function" ->
            LET args == Join([i \in 1..Len(pr.args) |->
                                 make_formula(pr.args[i], scope, underscores)], <<",">>)
            IN  IF args = Raise THEN Raise
                ELSE pr.name \o <<"(">> \o args \o <<")">>
      [] pr.kind = "binop" ->
            Join(<<make_formula(pr.args[1], scope, underscores),
                   make_formula(pr.args[2], scope, underscores)>>, pr.name)
      [] OTHER -> make_key(pr)

\* ------------------------------------------------------------------------
\* Function handles.
\* ------------------------------------------------------------------------

\* 'anon{:03d}'.format(n)
AnonName(n) ==
    LET digits == NatToStr(n)
    IN  <<"a", "n", "o", "n">> \o Repeat("0", 3 - Len(digits)) \o digits

\* The name new_anon_name returns once it has incremented the counter.
new_anon_name(counter) == AnonName(counter + 1)

\* What a handle resolves to: the name (<<>> for None), and the scope and
\* the counter as the resolution leaves them.
Resolved(name, scope, counter) ==
    [name |-> name, scope |-> scope, counter |-> counter]

\* create_array_function, had the new scope not been stored in the functions
\* of the scope.
create_array_function_unregistered(func, scope, underscores, counter) ==
    IF ~HasKey(Body(func), "array") THEN Resolved(<<>>, scope, counter)
    ELSE Resolved(new_anon_name(counter), scope, counter + 1)

create_array_function(func, scope, underscores, counter) ==
    IF ~HasKey(Body(func), "array") THEN Resolved(<<>>, scope, counter)
    ELSE LET func_name == new_anon_name(counter)
             params == [i \in 1..Len(func.args) |-> func.args[i].name]
             output_var == func_name \o Repeat("_", underscores) \o <<"o", "u", "t">>
             types == Update(<<[k |-> output_var, v |-> "variable"]>>,
                             [i \in 1..Len(params) |-> [k |-> params[i], v |-> "variable"]])
             newscope == Scope(func_name, params, <<output_var>>,
                               <<[k |-> output_var, v |-> Body(func)]>>,
                               <<>>, <<>>, types)
         IN  Resolved(func_name,
                      [scope EXCEPT !.functions = Put(scope.functions, func_name, newscope)],
                      counter + 1)

\* parse_handle, had a body that is neither a call nor an array been taken
\* as an array of one entry.
parse_handle_any_body(func, scope, underscores, counter) ==
    IF func.kind = "function handle" THEN Resolved(func.name, scope, counter)
    ELSE IF func.kind = "anon handle"
    THEN IF HasKey(Body(func), "array or function")
         THEN Resolved(Body(func).name, scope, counter)
         ELSE IF HasKey(Body(func), "array")
         THEN create_array_function(func, scope, underscores, counter)
         ELSE create_array_function(
                  [func EXCEPT !.rows = <<<<Arr(<<<<Body(func)>>>>)>>>>],
                  scope, underscores, counter)
    ELSE Resolved(<<>>, scope, counter)

\* parse_handle, had the name inside a body that is a call not been taken.
parse_handle_no_call_body(func, scope, underscores, counter) ==
    IF func.kind = "function handle" THEN Resolved(func.name, scope, counter)
    ELSE IF func.kind = "anon handle" /\ HasKey(Body(func), "array")
    THEN create_array_function(func, scope, underscores, counter)
    ELSE Resolved(<<>>, scope, counter)

parse_handle(func, scope, underscores, counter) ==
    IF func.kind = "function handle" THEN Resolved(func.name, scope, counter)
    ELSE IF func.kind = "anon handle"
    THEN IF HasKey(Body(func), "array or function")
         THEN Resolved(Body(func).name, scope, counter)
         ELSE IF HasKey(Body(func), "array")
         THEN create_array_function(func, scope, underscores, counter)
         ELSE Resolved(<<>>, scope, counter)
    ELSE Resolved(<<>>, scope, counter)

\* ------------------------------------------------------------------------
\* The texts of the input scripts.
\* ------------------------------------------------------------------------

T_t == <<"t">>
T_x == <<"x">>
T_a == <<"a">>
T_b == <<"b">>
T_f == <<"f">>
T_h == <<"h">>
T_k == <<"k">>
T_j == <<"j">>
T_dx == <<"d", "x">>
T_tspan == <<"t", "s", "p", "a", "n">>
T_xinit == <<"x", "i", "n", "i", "t">>
T_ode45 == <<"o", "d", "e", "4", "5">>
T_ode23 == <<"o", "d", "e", "2", "3">>
T_ODE45 == <<"O", "D", "E", "4", "5">>
T_solve == <<"s", "o", "l", "v", "e">>
T_lhs == <<"[", "t", ",", "x", "]">>
T_lhs3 == <<"[", "t", ",", "x", ",", "t", "e", "]">>
T_p == <<"p">>
T_y == <<"y">>
T_ax == <<"a", "x">>
T_lhs_y == <<"[", "t", ",", "y", "]">>
T_lhs2 == <<"[", "t", "2", ",", "x", "2", "]">>
T_main == <<"m", "a", "i", "n">>
T_comp1 == <<"c", "o", "m", "p", "1">>
T_anon001 == <<"a", "n", "o", "n", "0", "0", "1">>
T_x_1 == <<"x", "_", "1">>
T_k__1 == <<"k", "_", "_", "1">>
T_f__g == <<"f", "_", "_", "g">>
T_ode == <<"o", "d", "e">>

\* ------------------------------------------------------------------------
\* The input scripts.  The base script is the one of the converter's design
\* comment:
\*     tspan = [0 300]; xinit = [0; 0]; a = 0.6; b = 0.348;
\*     [t,x] = ode45(@f, tspan, xinit);
\*     function dx = f(t, x)  dx = [a - b*x(1); a*x(1)];  end
\* with an initial-condition vector of n entries and a derivative array of
\* m entries, each a row, a column or (the derivative array only) a matrix
\* of two columns.  A variant changes one thing in it.
\* ------------------------------------------------------------------------

Variants ==
    {"base", "ic_expr", "shadow", "shadow_expr", "comp1",
     "us_assign", "us_param", "us_fname",
     "anon_array", "anon_user", "anon_call", "var_handle",
     "sub_idnum", "sub_idid", "sub_colon", "sub_expr", "sub_unbound", "sub_two",
     "no_ode", "upper_ode", "nested_ode", "file_fn", "two_ode_a", "two_ode_b",
     "three_out", "var_anon", "h_unknown", "h_number", "arg_number", "anon_expr",
     "ic_unbound", "two_args", "one_param", "no_output", "arr_param",
     "arr_formula", "dep_y", "suffix_ref", "outer_ref"}

Bind(key, val) == [k |-> key, v |-> val]

\* The subscripts of the reference to x in the first derivative formula.
FirstSubscripts(variant) ==
    CASE variant \in {"sub_idnum", "sub_idid", "sub_unbound"} -> <<Id(T_k)>>
      [] variant = "sub_colon" -> <<Colon>>
      [] variant = "sub_expr" -> <<Bin("+", Id(T_k), Num(<<"1">>))>>
      [] variant = "sub_two" -> <<Num(<<"1">>), Num(<<"2">>)>>
      [] OTHER -> <<Num(<<"1">>)>>

\* The name of the second parameter of the derivative function.
DependentName(variant) == IF variant = "dep_y" THEN T_y ELSE T_x

\* The array the first derivative formula refers to.
FirstName(variant) ==
    CASE variant = "suffix_ref" -> T_ax
      [] variant = "outer_ref" -> T_p
      [] OTHER -> DependentName(variant)

\* The i-th derivative formula: a - b*x(1), a*x(1), a*x(2), ...
Formula(i, variant) ==
    IF i = 1
    THEN Bin("-", Id(T_a),
             Bin("*", Id(T_b), ARef(FirstName(variant), FirstSubscripts(variant))))
    ELSE Bin("*", Id(T_a), ARef(DependentName(variant), <<Num(NatToStr(i - 1))>>))

Shaped(shape, entries) ==
    CASE shape = "row" -> Arr(<<entries>>)
      [] shape = "col" -> Arr([i \in 1..Len(entries) |-> <<entries[i]>>])
      [] OTHER -> Arr([i \in 1..Len(entries) |-> <<entries[i], Num(<<"0">>)>>])

DerivArray(p) == Shaped(p.dv_shape, [i \in 1..p.m |-> Formula(i, p.variant)])

InitArray(p) ==
    Shaped(p.ic_shape,
           [i \in 1..p.n |-> IF i = 1 /\ p.variant = "ic_expr" THEN Id(T_a)
                                                               ELSE Num(<<"0">>)])

FunctionName(p) == IF p.variant = "us_fname" THEN T_f__g ELSE T_f

FunctionScope(p) ==
    LET extra == IF p.variant = "us_param" THEN <<T_x_1>> ELSE <<>>
        params == IF p.variant = "one_param" THEN <<T_t>>
                  ELSE <<T_t, DependentName(p.variant)>> \o extra
        local == IF p.variant = "suffix_ref" THEN <<T_ax>> ELSE <<>>
        returns == IF p.variant = "no_output" THEN <<>> ELSE <<T_dx>>
        more == CASE p.variant = "sub_idnum" -> <<Bind(T_k, Num(<<"1">>))>>
                  [] p.variant = "sub_idid" ->
                        <<Bind(T_k, Id(T_j)), Bind(T_j, Num(<<"1">>))>>
                  [] p.variant = "shadow" -> <<Bind(T_a, Num(<<"0", ".", "7">>))>>
                  [] p.variant = "shadow_expr" -> <<Bind(T_a, Id(T_b))>>
                  [] OTHER -> <<>>
    IN  Scope(FunctionName(p), params, returns,
              <<Bind(T_dx, DerivArray(p))>> \o more, <<>>, <<>>,
              [i \in 1..Len(params) |-> Bind(params[i], "variable")]
                  \o <<Bind(T_dx, "variable")>>
                  \o [i \in 1..Len(local) |-> Bind(local[i], "variable")])

\* A function the user wrote under the name anon001.
UserAnon001 ==
    Scope(T_anon001, <<T_t, T_x>>, <<T_dx>>,
          <<Bind(T_dx, Arr(<<<<Num(<<"1">>)>>>>))>>, <<>>, <<>>,
          <<Bind(T_t, "variable"), Bind(T_x, "variable"), Bind(T_dx, "variable")>>)

HandleArg(p) ==
    CASE p.variant \in {"anon_array", "anon_user"} ->
            AnonFun(<<Id(T_t), Id(T_x)>>, DerivArray(p))
      [] p.variant = "anon_call" ->
            AnonFun(<<Id(T_t), Id(T_x)>>, Call(T_f, <<Id(T_t), Id(T_x)>>))
      [] p.variant = "anon_expr" ->
            AnonFun(<<Id(T_t), Id(T_x)>>, Bin("*", Id(T_a), Id(T_x)))
      [] p.variant \in {"var_handle", "var_anon", "h_unknown", "h_number"} -> Id(T_h)
      [] p.variant = "arg_number" -> Num(<<"5">>)
      [] OTHER -> FunHandle(FunctionName(p))

SolverName(p) ==
    CASE p.variant = "no_ode" -> T_solve
      [] p.variant = "upper_ode" -> T_ODE45
      [] OTHER -> T_ode45

CallArgs(p) ==
    IF p.variant = "two_args" THEN <<HandleArg(p), Id(T_tspan)>>
    ELSE <<HandleArg(p), Id(T_tspan), Id(T_xinit)>>

\* The left-hand side of the call of the solver.
OutputList(p) ==
    CASE p.variant = "three_out" -> T_lhs3
      [] p.variant = "suffix_ref" -> T_lhs_y
      [] OTHER -> T_lhs

Constants(p) ==
    <<Bind(T_a, Num(<<"0", ".", "6">>)), Bind(T_b, Num(<<"0", ".", "3", "4", "8">>))>>

\* The assignments around the call of the solver.
CallAssignments(p) ==
    <<Bind(T_tspan, Arr(<<<<Num(<<"0">>), Num(<<"3", "0", "0">>)>>>>))>>
    \o (IF p.variant = "ic_unbound" THEN <<>> ELSE <<Bind(T_xinit, InitArray(p))>>)
    \o (CASE p.variant = "us_assign" -> <<Bind(T_k__1, Num(<<"2">>))>>
          [] p.variant = "comp1" -> <<Bind(T_comp1, Num(<<"1">>))>>
          [] p.variant = "var_handle" -> <<Bind(T_h, FunHandle(T_f))>>
          [] p.variant = "var_anon" ->
                <<Bind(T_h, AnonFun(<<Id(T_t), Id(T_x)>>,
                                    Call(T_f, <<Id(T_t), Id(T_x)>>)))>>
          [] p.variant = "h_number" -> <<Bind(T_h, Num(<<"5">>))>>
          [] p.variant \in {"arr_param", "outer_ref"} ->
                <<Bind(T_p, Arr(<<<<Num(<<"1">>), Num(<<"2">>)>>>>))>>
          [] p.variant = "arr_formula" ->
                <<Bind(T_p, Arr(<<<<Id(T_a), Id(T_b)>>>>))>>
          [] OTHER -> <<>>)
    \o <<Bind(OutputList(p), Call(SolverName(p), CallArgs(p)))>>
    \o (IF p.variant \in {"two_ode_a", "two_ode_b"}
        THEN <<Bind(T_lhs2, Call(T_ode23, CallArgs(p)))>> ELSE <<>>)

Calls(p) ==
    CASE p.variant = "two_ode_a" ->
            <<Bind(T_ode45, CallArgs(p)), Bind(T_ode23, CallArgs(p))>>
      [] p.variant = "two_ode_b" ->
            <<Bind(T_ode23, CallArgs(p)), Bind(T_ode45, CallArgs(p))>>
      [] OTHER -> <<Bind(SolverName(p), CallArgs(p))>>

DeclaredFunctions(p) ==
    CASE p.variant = "anon_array" -> <<>>
      [] p.variant = "anon_user" -> <<Bind(T_anon001, UserAnon001)>>
      [] OTHER -> <<Bind(FunctionName(p), FunctionScope(p))>>

\* The scope tree the parser hands over: mparse.scope.
MkTree(p) ==
    CASE p.variant = "nested_ode" ->
            Scope(<<>>, <<>>, <<>>, Constants(p), <<>>,
                  <<Bind(T_main, Scope(T_main, <<>>, <<>>, CallAssignments(p),
                                       Calls(p), <<>>, <<>>))>>
                      \o DeclaredFunctions(p),
                  <<>>)
      [] p.variant = "file_fn" ->
            Scope(<<>>, <<>>, <<>>, <<>>, <<>>,
                  <<Bind(T_main, Scope(T_main, <<>>, <<>>,
                                       Constants(p) \o CallAssignments(p),
                                       Calls(p), DeclaredFunctions(p), <<>>))>>,
                  <<>>)
      [] OTHER ->
            Scope(<<>>, <<>>, <<>>, Constants(p) \o CallAssignments(p),
                  Calls(p), DeclaredFunctions(p),
                  IF p.variant = "outer_ref" THEN <<Bind(T_p, "variable")>> ELSE <<>>)

\* The inputs: the base script in every shape and length, and each variant
\* with column vectors of equal length.
Inputs ==
    {p \in [variant : Variants, ic_shape : {"row", "col"}, n : 1..MaxLen,
            dv_shape : {"row", "col", "mat"}, m : 1..MaxLen] :
        /\ p.dv_shape = "mat" => p.m >= 2
        /\ p.variant # "base" =>
              p.ic_shape = "col" /\ p.dv_shape = "col" /\ p.n = p.m}

\* ------------------------------------------------------------------------
\* The state of one process.
\* ------------------------------------------------------------------------

VARIABLES
    input,          \* which script was parsed (never changes)
    tree,           \* mparse.scope, the scope tree handed to the converter
    anon_counter,   \* the module's global anon_counter
    use_species,    \* the argument use_species
    format,         \* "sbml": create_raterule_model, "xpp": create_xpp_elements,
                    \* "xpp_file": create_xpp_file
    pc,             \* where the running translation is
    loc,            \* its local variables
    entities,       \* the compartments, species and parameters created so far
    init_assigns,   \* the SBML initial assignments created so far
    rate_rules,     \* the SBML rate rules created so far
    failure,        \* how the translation ended, if it failed
    run,            \* the number of the translation, from 1
    prev,           \* what the earlier translations of this tree produced
    lines,          \* the lines create_xpp_file returned
    helper,         \* a function decorated by parse_debug_helper and its calls
    controller      \* a call of Controller.build_reaction_model

vars == <<input, tree, anon_counter, use_species, format, pc, loc, entities,
          init_assigns, rate_rules, failure, run, prev, lines, helper, controller>>

NoFailure == [kind |-> "none", msg |-> ""]

BlankLocals ==
    [ws |-> <<>>, underscores |-> 0, ode_function |-> <<>>, call_arglist |-> <<>>,
     assigned_var |-> <<>>, init_cond_var |-> <<>>, handle_name |-> <<>>,
     dependent_var |-> <<>>, output_var |-> <<>>, i |-> 0,
     skip_vars |-> <<>>, all_vars |-> <<>>]

\* No call of the wrapper yet.
NoCall ==
    [short |-> FALSE, called_f |-> FALSE, raised |-> "none", id |-> 0]

\* Before parse_debug_helper is applied: no function, no wrapper.
HelperStart ==
    [pc |-> "undecorated", num_args |-> 0, defaults |-> FALSE, attrs |-> {},
     exc_info |-> <<>>, calls |-> 0, last |-> NoCall, before |-> NoCall]

\* Before build_reaction_model is called.
ControllerStart ==
    [pc |-> "idle", args |-> <<>>, xpp_file |-> <<>>, files |-> {},
     raised |-> "none", pending |-> "none", printed |-> FALSE, result |-> "none"]

\* No translation has started.
ConverterStart ==
    /\ tree = MkTree(input)
    /\ anon_counter = 0
    /\ pc = "idle"
    /\ loc = BlankLocals
    /\ entities = <<>>
    /\ init_assigns = <<>>
    /\ rate_rules = <<>>
    /\ failure = NoFailure
    /\ run = 1
    /\ prev = <<>>
    /\ lines = <<>>

Init ==
    /\ input \in Inputs
    /\ use_species \in BOOLEAN
    /\ format \in {"sbml", "xpp", "xpp_file"}
    /\ ConverterStart
    /\ helper = HelperStart
    /\ controller = ControllerStart

\* The path from the root to the working scope: the root itself, unless
\* the file is one function definition.
get_function_scope(scope) ==
    IF Len(scope.functions) = 1 /\ Len(scope.assignments) = 0
    THEN <<scope.functions[1].k>>
    ELSE <<>>

ScopeAt(root, path) == IF path = <<>> THEN root ELSE Get(root.functions, path[1])

WithScopeAt(root, path, scope) ==
    IF path = <<>> THEN scope
    ELSE [root EXCEPT !.functions = Put(root.functions, path[1], scope)]

working_scope == ScopeAt(tree, loc.ws)

function_scope == Get(working_scope.functions, loc.handle_name)

\* fail(msg), and the exceptions Python raises on the way.
Fails(kind, msg) ==
    /\ pc' = "failed"
    /\ failure' = [kind |-> kind, msg |-> msg]

\* ------------------------------------------------------------------------
\* The entities.  `origin` and `var` are bookkeeping: which step created
\* the entity and for which variable of the script.
\* ------------------------------------------------------------------------

Entity(type, id, value, constant, rate_rule, init_assign, origin, var) ==
    [SBML_type |-> type, id |-> id, value |-> value, constant |-> constant,
     init_assign |-> init_assign, rate_rule |-> rate_rule,
     origin |-> origin, var |-> var]

\* The entities make_indexed and make_xpp_indexed create for one entry, and
\* the SBML initial assignments; `raised` when the formula could not be made.
\* SBML creates the entity before it translates the formula, XPP after, and
\* XPP passes the formula in the position of the rate rule.
make_indexed(fmt, var, index, content, species, underscores, scope, origin) ==
    LET name == rename(var, NatToStr(index + 1), underscores)
        type == IF species THEN "Species" ELSE "Parameter"
        formula == make_formula(content, scope, underscores)
    IN  IF HasKey(content, "number")
        THEN [entities |-> <<Entity(type, name, terminal_value(content), FALSE,
                                    <<>>, <<>>, origin, var)>>,
              init_assigns |-> <<>>, raised |-> FALSE]
        ELSE IF fmt = "sbml"
        THEN [entities |-> <<Entity(type, name, 0, FALSE, <<>>, <<>>, origin, var)>>,
              init_assigns |-> IF formula = Raise THEN <<>>
                               ELSE <<[symbol |-> name, formula |-> formula]>>,
              raised |-> formula = Raise]
        ELSE [entities |-> IF formula = Raise THEN <<>>
                           ELSE <<Entity(type, name, 0, FALSE, formula, <<>>,
                                         origin, var)>>,
              init_assigns |-> <<>>, raised |-> formula = Raise]

\* mloop(matrix, make_indexed...) from the 0-based index i on: what the
\* whole loop creates, up to the entry that raises.
RECURSIVE mloop_indexed(_, _, _, _, _, _, _, _)
mloop_indexed(fmt, var, matrix, i, species, underscores, scope, origin) ==
    IF i >= vector_length(matrix)
    THEN [entities |-> <<>>, init_assigns |-> <<>>, raised |-> FALSE]
    ELSE LET one == make_indexed(fmt, var, i, mloop_entry(matrix, i), species,
                                 underscores, scope, origin)
             rest == mloop_indexed(fmt, var, matrix, i + 1, species, underscores,
                                   scope, origin)
         IN  IF one.raised THEN one
             ELSE [entities |-> one.entities \o rest.entities,
                   init_assigns |-> one.init_assigns \o rest.init_assigns,
                   raised |-> rest.raised]

\* make_raterule, had it recorded the formula as the translator produced it.
make_raterule_unrenamed(assigned_var, dep_var, index, content, underscores, scope) ==
    [variable |-> assigned_var \o Repeat("_", underscores) \o NatToStr(index + 1),
     formula |-> make_formula(content, scope, underscores)]

\* The rate rule of one entry of the derivative array: its variable and its
\* formula, the dependent variable renamed to the assigned variable.
make_raterule(assigned_var, dep_var, index, content, underscores, scope) ==
    LET string_formula == make_formula(content, scope, underscores)
        xnameregexp == dep_var \o Repeat("_", underscores)
        newnametransform == assigned_var \o Repeat("_", underscores)
    IN  [variable |-> assigned_var \o Repeat("_", underscores) \o NatToStr(index + 1),
         formula |-> IF string_formula = Raise THEN Raise
                     ELSE SubIndexed(string_formula, 1, xnameregexp, newnametransform)]

\* add_xpp_raterule: the first entity with the id gets the rule.
add_xpp_raterule(model, id, ast) ==
    LET hits == {i \in 1..Len(model) : model[i].id = id}
        first == CHOOSE i \in hits : \A j \in hits : i <= j
    IN  IF hits = {} THEN model
        ELSE [model EXCEPT ![first].rate_rule = ast]

\* ------------------------------------------------------------------------
\* create_raterule_model and create_xpp_elements, step by step.
\* ------------------------------------------------------------------------

\* is_ode_call, had it compared without regard to case.
is_ode_call_any_case(name) == StartsWith(name, T_ode) \/ StartsWith(name, <<"O", "D", "E">>)

\* name.startswith('ode'), case-sensitive.
is_ode_call(name) == StartsWith(name, T_ode)

\* The working scope, the separator length and the call of an ode* function.
Begin ==
    /\ pc = "idle"
    /\ LET ws == get_function_scope(tree)
           scope == ScopeAt(tree, ws)
           calls == get_all_function_calls(scope)
           odes == {i \in 1..Len(calls) : is_ode_call(calls[i].k)}
           first == CHOOSE i \in odes : \A j \in odes : i <= j
       IN  IF odes = {}
           THEN /\ Fails("SystemExit",
                         "Could not locate a call to a Matlab function in the file.")
                /\ loc' = [loc EXCEPT !.ws = ws,
                                      !.underscores = num_underscores(scope) + 1]
           ELSE /\ pc' = "call site"
                /\ loc' = [loc EXCEPT !.ws = ws,
                                      !.underscores = num_underscores(scope) + 1,
                                      !.ode_function = calls[first].k,
                                      !.call_arglist = calls[first].v]
                /\ UNCHANGED failure
    /\ UNCHANGED <<input, tree, anon_counter, use_species, format, entities,
                   init_assigns, rate_rules, run, prev, lines,
                   helper, controller>>

\* The assigned variable and the initial-condition variable.
CallSite ==
    /\ pc = "call site"
    /\ LET call_lhs == get_lhs_for_rhs(loc.ode_function, working_scope)
       IN  IF call_lhs = <<>>
           THEN Fails("TypeError", "expected string or buffer") /\ UNCHANGED loc
           ELSE IF Len(loc.call_arglist) < 3
           THEN Fails("IndexError", "list index out of range") /\ UNCHANGED loc
           ELSE IF ~HasKey(loc.call_arglist[3], "identifier")
           THEN Fails("KeyError", "identifier") /\ UNCHANGED loc
           ELSE /\ pc' = "handle"
                /\ loc' = [loc EXCEPT !.assigned_var = SubOutputList(call_lhs, 1),
                                      !.init_cond_var = loc.call_arglist[3].name]
                /\ UNCHANGED failure
    /\ UNCHANGED <<input, tree, anon_counter, use_species, format, entities,
                   init_assigns, rate_rules, run, prev, lines,
                   helper, controller>>

\* The name of the derivative function, from the first argument of the call.
ResolveHandle ==
    /\ pc = "handle"
    /\ LET arg == loc.call_arglist[1]
           unknown == HasKey(arg, "identifier")
                        /\ ~Has(working_scope.assignments, arg.name)
           handle == IF HasKey(arg, "function handle") THEN <<arg>>
                     ELSE IF HasKey(arg, "identifier") /\ ~unknown
                             /\ HasKey(Get(working_scope.assignments, arg.name),
                                       "function handle")
                     THEN <<Get(working_scope.assignments, arg.name)>>
                     ELSE <<>>
           got == IF handle = <<>> THEN Resolved(<<>>, working_scope, anon_counter)
                  ELSE parse_handle(handle[1], working_scope, loc.underscores,
                                    anon_counter)
       IN  IF unknown
           THEN /\ Fails("SystemExit", "{} is unknown")
                /\ UNCHANGED <<loc, tree, anon_counter>>
           ELSE /\ tree' = WithScopeAt(tree, loc.ws, got.scope)
                /\ anon_counter' = got.counter
                /\ IF got.name = <<>>
                   THEN /\ Fails("SystemExit",
                                 "Could not determine ODE function from call to {}")
                        /\ UNCHANGED loc
                   ELSE /\ pc' = "document"
                        /\ loc' = [loc EXCEPT !.handle_name = got.name]
                        /\ UNCHANGED failure
    /\ UNCHANGED <<input, use_species, format, entities, init_assigns,
                   rate_rules, run, prev, lines,
                   helper, controller>>

\* The document (or the list of XPP variables) and its compartment.
CreateCompartment ==
    /\ pc = "document"
    /\ entities' = <<Entity("Compartment", T_comp1, 1000, TRUE, <<>>, <<>>,
                            "compartment", <<>>)>>
    /\ pc' = "function"
    /\ UNCHANGED <<input, tree, anon_counter, use_species, format, loc,
                   init_assigns, rate_rules, failure, run, prev, lines,
                   helper, controller>>

\* The scope of the derivative function, its dependent variable, and the
\* array of initial conditions.
LocateFunction ==
    /\ pc = "function"
    /\ IF get_function_declaration(loc.handle_name, working_scope) = <<>>
       THEN Fails("SystemExit", "Cannot locate definition for function {}")
               /\ UNCHANGED loc
       ELSE IF Len(function_scope.parameters) < 2
       THEN Fails("IndexError", "list index out of range") /\ UNCHANGED loc
       ELSE IF ~Has(working_scope.assignments, loc.init_cond_var)
       THEN Fails("KeyError", "init_cond_var") /\ UNCHANGED loc
       ELSE IF ~HasKey(Get(working_scope.assignments, loc.init_cond_var), "array")
       THEN Fails("SystemExit",
                  "Failed to parse the assignment of the initial value matrix")
               /\ UNCHANGED loc
       ELSE IF Get(working_scope.assignments, loc.init_cond_var).kind # "array"
       THEN Fails("KeyError", "row list") /\ UNCHANGED loc
       ELSE /\ pc' = "states"
            /\ loc' = [loc EXCEPT !.dependent_var = function_scope.parameters[2],
                                  !.i = 0]
            /\ UNCHANGED failure
    /\ UNCHANGED <<input, tree, anon_counter, use_species, format, entities,
                   init_assigns, rate_rules, run, prev, lines,
                   helper, controller>>

init_cond == Get(working_scope.assignments, loc.init_cond_var)

\* The use_species the elements are made with: create_xpp_file calls
\* create_xpp_elements(parse_results) without its own use_species, so the
\* default True applies.
species_mode == IF format = "xpp_file" THEN TRUE ELSE use_species

\* One turn of mloop over the initial conditions: one state entity.
StateEntity ==
    /\ pc = "states"
    /\ loc.i < vector_length(init_cond)
    /\ LET made == make_indexed(format, loc.assigned_var, loc.i,
                                mloop_entry(init_cond, loc.i), species_mode,
                                loc.underscores, function_scope, "state")
       IN  /\ entities' = entities \o made.entities
           /\ init_assigns' = init_assigns \o made.init_assigns
           /\ IF made.raised
              THEN Fails("ValueError", "Unable to handle matrix") /\ UNCHANGED loc
              ELSE /\ loc' = [loc EXCEPT !.i = loc.i + 1]
                   /\ UNCHANGED <<pc, failure>>
    /\ UNCHANGED <<input, tree, anon_counter, use_species, format, rate_rules,
                   run, prev, lines,
                   helper, controller>>

\* The output variable of the derivative function and its array.
LocateOutput ==
    /\ pc = "states"
    /\ loc.i >= vector_length(init_cond)
    /\ IF Len(function_scope.returns) < 1
       THEN Fails("IndexError", "list index out of range") /\ UNCHANGED loc
       ELSE IF ~Has(function_scope.assignments, function_scope.returns[1])
       THEN Fails("KeyError", "output_var") /\ UNCHANGED loc
       ELSE IF ~HasKey(Get(function_scope.assignments, function_scope.returns[1]),
                       "array")
       THEN Fails("SystemExit", "Failed to parse the body of the function {}")
               /\ UNCHANGED loc
       ELSE IF Get(function_scope.assignments, function_scope.returns[1]).kind
                  # "array"
       THEN Fails("KeyError", "row list") /\ UNCHANGED loc
       ELSE /\ pc' = "rules"
            /\ loc' = [loc EXCEPT !.output_var = function_scope.returns[1], !.i = 0]
            /\ UNCHANGED failure
    /\ UNCHANGED <<input, tree, anon_counter, use_species, format, entities,
                   init_assigns, rate_rules, run, prev, lines,
                   helper, controller>>

var_def == Get(function_scope.assignments, loc.output_var)

\* One turn of mloop over the derivative array: one rate rule.
RateRule ==
    /\ pc = "rules"
    /\ loc.i < vector_length(var_def)
    /\ LET rule == make_raterule(loc.assigned_var, loc.dependent_var, loc.i,
                                 mloop_entry(var_def, loc.i), loc.underscores,
                                 function_scope)
       IN  IF rule.formula = Raise
           THEN /\ Fails("ValueError", "Unable to handle matrix")
                /\ UNCHANGED <<loc, entities, rate_rules>>
           ELSE IF rule.formula = <<>>
           THEN /\ Fails("SystemExit", "Failed to parse the formula for row {}")
                /\ UNCHANGED <<loc, entities, rate_rules>>
           ELSE /\ loc' = [loc EXCEPT !.i = loc.i + 1]
                /\ IF format = "sbml"
                   THEN /\ rate_rules' = Append(rate_rules, rule)
                        /\ UNCHANGED entities
                   ELSE /\ entities' = add_xpp_raterule(entities, rule.variable,
                                                        rule.formula)
                        /\ UNCHANGED rate_rules
                /\ UNCHANGED <<pc, failure>>
    /\ UNCHANGED <<input, tree, anon_counter, use_species, format, init_assigns,
                   run, prev, lines,
                   helper, controller>>

\* sweep_vars, had the bindings of the working scope been taken second.
sweep_vars_outer_wins(working, function) ==
    Update(function.assignments, working.assignments)

\* The assignments the sweep goes through: those of the working scope, then
\* those of the derivative function, a later binding of a name replacing an
\* earlier one.
sweep_vars(working, function) == Update(working.assignments, function.assignments)

\* skip_vars, had the initial-condition variable been left off the list.
skip_vars_without_init_cond(init_cond_var, output_var, assigned_var, call_arglist) ==
    <<output_var, assigned_var, call_arglist[2].name>>

\* The names the sweep makes no entity for.
skip_vars(init_cond_var, output_var, assigned_var, call_arglist) ==
    <<init_cond_var, output_var, assigned_var, call_arglist[2].name>>

\* The variables the sweep leaves out, and the assignments it goes through.
BeginSweep ==
    /\ pc = "rules"
    /\ loc.i >= vector_length(var_def)
    /\ IF ~HasKey(loc.call_arglist[2], "identifier")
       THEN Fails("KeyError", "identifier") /\ UNCHANGED loc
       ELSE /\ pc' = "sweep"
            /\ loc' = [loc EXCEPT
                          !.skip_vars = skip_vars(loc.init_cond_var, loc.output_var,
                                                  loc.assigned_var, loc.call_arglist),
                          !.all_vars = sweep_vars(working_scope, function_scope)]
            /\ UNCHANGED failure
    /\ UNCHANGED <<input, tree, anon_counter, use_species, format, entities,
                   init_assigns, rate_rules, run, prev, lines,
                   helper, controller>>

\* libSBML's parseL3Formula gives no AST for an empty text.
parseL3Formula(formula) == IF formula = <<>> THEN <<>> ELSE <<formula>>

\* The pieces substitute_vars goes through.
Pieces(rhs) == IF rhs.kind = "binop" THEN rhs.args ELSE <<rhs>>

\* substitute_vars: the first piece that is a variable assigned in the scope
\* is replaced by its value; <<>> (None) when there is none.
substitute_vars(rhs, scope) ==
    LET pieces == Pieces(rhs)
        hits == {i \in 1..Len(pieces) : Has(scope.assignments, make_key(pieces[i]))}
        first == CHOOSE i \in hits : \A j \in hits : i <= j
        value == Get(scope.assignments, make_key(pieces[first]))
    IN  IF hits = {} THEN <<>>
        ELSE IF rhs.kind = "binop" THEN <<[rhs EXCEPT !.args[first] = value]>>
        ELSE <<value>>

\* One turn of the sweep: the entities for one assignment.
SweepStep ==
    /\ pc = "sweep"
    /\ loc.all_vars # <<>>
    /\ LET var == Head(loc.all_vars).k
           rhs == Head(loc.all_vars).v
           next == [loc EXCEPT !.all_vars = Tail(loc.all_vars)]
           skip == /\ loc' = next
                   /\ UNCHANGED <<pc, failure, entities, init_assigns>>
       IN  IF InSeq(var, loc.skip_vars) \/ name_is_structured(var)
           THEN skip
           ELSE IF HasKey(rhs, "number")
           THEN /\ entities' = Append(entities,
                                      Entity("Parameter", var, terminal_value(rhs),
                                             TRUE, <<>>, <<>>, "sweep", var))
                /\ loc' = next
                /\ UNCHANGED <<pc, failure, init_assigns>>
           ELSE IF HasKey(rhs, "array")
           THEN IF rhs.kind # "array"
                THEN /\ Fails("KeyError", "row list")
                     /\ UNCHANGED <<loc, entities, init_assigns>>
                ELSE LET made == mloop_indexed(format, var, rhs, 0, FALSE,
                                               loc.underscores, function_scope,
                                               "sweep")
                     IN  /\ entities' = entities \o made.entities
                         /\ init_assigns' = init_assigns \o made.init_assigns
                         /\ IF made.raised
                            THEN Fails("ValueError", "Unable to handle matrix")
                                    /\ UNCHANGED loc
                            ELSE loc' = next /\ UNCHANGED <<pc, failure>>
           ELSE IF HasKey(rhs, "function handle")
           THEN skip
           ELSE IF format = "sbml"
           THEN LET formula == make_formula(rhs, function_scope, loc.underscores)
                IN  IF formula = Raise
                    THEN /\ Fails("ValueError", "Unable to handle matrix")
                         /\ UNCHANGED <<loc, entities, init_assigns>>
                    ELSE IF parseL3Formula(formula) = <<>>
                    THEN skip
                    ELSE /\ entities' = Append(entities,
                                               Entity("Parameter", var, 0, TRUE,
                                                      <<>>, <<>>, "sweep", var))
                         /\ init_assigns' = Append(init_assigns,
                                                   [symbol |-> var, formula |-> formula])
                         /\ loc' = next
                         /\ UNCHANGED <<pc, failure>>
           ELSE LET subst == substitute_vars(rhs, working_scope)
                IN  IF subst = <<>> \/ ~HasKey(subst[1], "number")
                    THEN /\ Fails("Exception", "formula_parser.eval")
                         /\ UNCHANGED <<loc, entities, init_assigns>>
                    ELSE /\ entities' = Append(entities,
                                               Entity("Parameter", var,
                                                      terminal_value(subst[1]), TRUE,
                                                      <<>>, <<>>, "sweep", var))
                         /\ loc' = next
                         /\ UNCHANGED <<pc, failure, init_assigns>>
    /\ UNCHANGED <<input, tree, anon_counter, use_species, format, rate_rules,
                   run, prev, lines,
                   helper, controller>>

\* One line of the XPP file: what it starts with, the id it names, and the
\* number or the text that follows the '='.
Line(tag, id, number, text) == [tag |-> tag, id |-> id, number |-> number, text |-> text]

\* par_lines, had only the constant parameters been written.
par_lines_constant_only(element) ==
    IF element.SBML_type = "Parameter" /\ element.constant
    THEN <<Line("# Parameter id = {}, constant", element.id, <<>>, <<>>),
           IF element.init_assign # <<>>
           THEN Line("par", element.id, <<>>, element.init_assign)
           ELSE Line("par", element.id, <<element.value>>, <<>>)>>
    ELSE <<>>

\* The first loop of create_xpp_file: the parameters.
par_lines(element) ==
    IF element.SBML_type # "Parameter" THEN <<>>
    ELSE IF element.constant
    THEN <<Line("# Parameter id = {}, constant", element.id, <<>>, <<>>),
           IF element.init_assign # <<>>
           THEN Line("par", element.id, <<>>, element.init_assign)
           ELSE Line("par", element.id, <<element.value>>, <<>>)>>
    ELSE IF element.rate_rule = <<>>
    THEN <<Line("# Parameter id = {}, non-constant but no rule supplied",
                element.id, <<>>, <<>>),
           Line("par", element.id, <<element.value>>, <<>>)>>
    ELSE <<>>

\* Whether the second and the third loop take the element.
has_ode(element) ==
    \/ element.SBML_type = "Parameter" /\ ~element.constant
          /\ element.rate_rule # <<>>
    \/ element.SBML_type = "Species"

\* The second loop: the differential equations.
ode_lines(element) ==
    IF has_ode(element)
    THEN <<Line("# rateRule : variable = {}", element.id, <<>>, <<>>),
           Line("init", element.id, <<element.value>>, <<>>),
           Line("d/dt", element.id, <<>>, element.rate_rule)>>
    ELSE <<>>

\* The third loop: the comments on the variables.
rule_comment(element) ==
    IF has_ode(element)
    THEN <<Line("# {}:   id = {}, defined by rule", element.id, <<>>,
                <<element.SBML_type>>)>>
    ELSE <<>>

\* The lines of the file, after the heading.
create_xpp_file(xpp_elements) ==
    <<Line("# This file is generated by MOCCASIN", <<>>, <<>>, <<>>)>>
        \o Flatten([i \in 1..Len(xpp_elements) |-> par_lines(xpp_elements[i])])
        \o Flatten([i \in 1..Len(xpp_elements) |-> ode_lines(xpp_elements[i])])
        \o Flatten([i \in 1..Len(xpp_elements) |-> rule_comment(xpp_elements[i])])

\* The model is written out and returned.
Finish ==
    /\ pc = "sweep"
    /\ loc.all_vars = <<>>
    /\ pc' = "done"
    /\ lines' = IF format = "xpp_file" THEN create_xpp_file(entities) ELSE <<>>
    /\ UNCHANGED <<input, tree, anon_counter, use_species, format, loc, entities,
                   init_assigns, rate_rules, failure, run, prev, helper, controller>>

\* The ids of the state entities, in the order of their creation.
IdsOf(origin) ==
    LET RECURSIVE pick(_)
        pick(es) == IF es = <<>> THEN <<>>
                    ELSE IF Head(es).origin = origin
                    THEN <<Head(es).id>> \o pick(Tail(es))
                    ELSE pick(Tail(es))
    IN  pick(entities)

StateIds == IdsOf("state")

\* The variables of the rate rules, in the order of their creation.
RuleVariables ==
    IF format = "sbml"
    THEN [i \in 1..Len(rate_rules) |-> rate_rules[i].variable]
    ELSE LET RECURSIVE pick(_)
             pick(es) == IF es = <<>> THEN <<>>
                         ELSE IF Head(es).rate_rule # <<>>
                         THEN <<Head(es).id>> \o pick(Tail(es))
                         ELSE pick(Tail(es))
         IN  pick(entities)

\* What a finished translation leaves behind for the comparison with the
\* next one.
Summary ==
    [pc |-> pc, underscores |-> loc.underscores, state_ids |-> StateIds,
     rule_vars |-> RuleVariables, handle_name |-> loc.handle_name,
     failure |-> failure]

\* The same parse results are translated once more in the same process:
\* the scope tree and the module's counter are as the last run left them.
Restart ==
    /\ pc \in {"done", "failed"}
    /\ run < MaxRuns
    /\ run' = run + 1
    /\ prev' = Append(prev, Summary)
    /\ pc' = "idle"
    /\ loc' = BlankLocals
    /\ entities' = <<>>
    /\ init_assigns' = <<>>
    /\ rate_rules' = <<>>
    /\ failure' = NoFailure
    /\ lines' = <<>>
    /\ UNCHANGED <<input, tree, anon_counter, use_species, format, helper, controller>>

Next ==
    \/ Begin
    \/ CallSite
    \/ ResolveHandle
    \/ CreateCompartment
    \/ LocateFunction
    \/ StateEntity
    \/ LocateOutput
    \/ RateRule
    \/ BeginSweep
    \/ SweepStep
    \/ Finish
    \/ Restart

Spec == Init /\ [][Next]_vars

\* ------------------------------------------------------------------------
\* parse_debug_helper: the decorator and the wrapper it returns.
\* ------------------------------------------------------------------------

\* The most parameters a decorated function may take.
MaxParameters == 3

converter_vars == <<input, tree, anon_counter, use_species, format, pc, loc,
                    entities, init_assigns, rate_rules, failure, run, prev, lines>>

\* The script in the parser while the helper or the controller is looked at.
DesignScript ==
    [variant |-> "base", ic_shape |-> "col", n |-> 2, dv_shape |-> "col", m |-> 2]

\* parse_debug_helper(f) for a function f of num_args parameters, with or
\* without default values: ValueError for more than three parameters,
\* otherwise the wrapper, on which the attribute exc (not exc_info) is set.
parse_debug_helper(num_args, defaults) ==
    /\ helper.pc = "undecorated"
    /\ helper' = IF num_args > MaxParameters
                 THEN [helper EXCEPT !.pc = "ValueError"]
                 ELSE [helper EXCEPT !.pc = "decorated", !.num_args = num_args,
                                     !.defaults = defaults, !.attrs = {"exc"}]
    /\ UNCHANGED <<converter_vars, controller>>

\* How a call of f can end: with fewer arguments than parameters and no
\* default values Python raises TypeError before the body runs.
Outcomes(short, defaults) ==
    IF short /\ ~defaults THEN {"TypeError"} ELSE {"return", "TypeError", "Exception"}

\* action(*args) with nargs arguments, f ending as outcome if it is called.
action(nargs, outcome) ==
    /\ helper.pc = "decorated"
    /\ helper.calls < MaxCalls
    /\ LET short == nargs < helper.num_args
           id == helper.calls + 1
           counted == [helper EXCEPT !.calls = id, !.before = helper.last]
       IN  IF short /\ "exc_info" \notin helper.attrs
           THEN helper' = [counted EXCEPT
                              !.last = [short |-> TRUE, called_f |-> FALSE,
                                        raised |-> "AttributeError", id |-> id]]
           ELSE IF short /\ helper.exc_info # <<>>
           THEN helper' = [counted EXCEPT
                              !.last = [short |-> TRUE, called_f |-> FALSE,
                                        raised |-> "TypeError",
                                        id |-> helper.exc_info[1]]]
           ELSE /\ outcome \in Outcomes(short, helper.defaults)
                /\ helper' = [counted EXCEPT
                                 !.attrs = helper.attrs \cup {"exc_info"},
                                 !.exc_info = IF outcome = "TypeError"
                                              THEN <<id>> ELSE <<>>,
                                 !.last = [short |-> short, called_f |-> TRUE,
                                           raised |-> IF outcome = "return"
                                                      THEN "none" ELSE outcome,
                                           id |-> IF outcome = "return"
                                                  THEN 0 ELSE id]]
    /\ UNCHANGED <<converter_vars, controller>>

InitHelper ==
    /\ input = DesignScript
    /\ use_species = FALSE
    /\ format = "sbml"
    /\ ConverterStart
    /\ helper = HelperStart
    /\ controller = ControllerStart

Decorate == \E num_args \in 0..(MaxParameters + 1), defaults \in BOOLEAN :
                parse_debug_helper(num_args, defaults)

WrapperCall == \E nargs \in 0..MaxParameters,
                  outcome \in {"return", "TypeError", "Exception"} :
                   action(nargs, outcome)

NextHelper ==
    \/ Decorate
    \/ WrapperCall

SpecHelper == InitHelper /\ [][NextHelper]_vars

\* ------------------------------------------------------------------------
\* Controller.build_reaction_model, step by step.
\* ------------------------------------------------------------------------

\* The name NamedTemporaryFile(suffix=".ode", delete=False) gives its file.
TempName == <<"tmp.ode">>

\* os.unlink, had it left the file where it is.
unlink_nothing(files, name) == files

\* os.unlink(name): the file is gone.
unlink(files, name) == files \ {name}

\* The statement at position `at` of the try block ends as `outcome`: the
\* next statement, or the except clauses with the exception.
Statement(at, outcome, then) ==
    /\ controller.pc = at
    /\ controller' = IF outcome = "ok"
                     THEN [controller EXCEPT !.pc = then]
                     ELSE [controller EXCEPT !.pc = "except", !.raised = outcome,
                                             !.pending = outcome]
    /\ UNCHANGED <<converter_vars, helper>>

build_reaction_model ==
    /\ controller.pc = "idle"
    /\ \E species, name_after_param, add_comments \in BOOLEAN :
           controller' = [controller EXCEPT
                             !.pc = "tempfile",
                             !.args = <<species, name_after_param, add_comments>>]
    /\ UNCHANGED <<converter_vars, helper>>

\* with NamedTemporaryFile(...) as xpp_file: the file exists and the name
\* xpp_file is bound, or the file system refuses.
NamedTemporaryFile ==
    /\ controller.pc = "tempfile"
    /\ \E outcome \in {"ok", "IOError"} :
           controller' = IF outcome = "ok"
                         THEN [controller EXCEPT !.pc = "convert",
                                                 !.xpp_file = TempName,
                                                 !.files = {TempName}]
                         ELSE [controller EXCEPT !.pc = "except",
                                                 !.raised = outcome,
                                                 !.pending = outcome]
    /\ UNCHANGED <<converter_vars, helper>>

\* create_raterule_model(parse_results, use_species, "biocham", ...): with a
\* converter of five parameters a triple or one of the converter's failures;
\* with the two-parameter converter of this tree, TypeError.
Convert == \E outcome \in {"ok", "TypeError", "ValueError", "SystemExit"} :
               Statement("convert", outcome, "write")

\* xpp_file.write(output), on any exception write(output.encode('UTF-8')),
\* then flush and close.
Write == \E outcome \in {"ok", "IOError", "AttributeError"} :
             Statement("write", outcome, "open")

\* files = {'file': open(xpp_file.name)}
Open == \E outcome \in {"ok", "IOError"} : Statement("open", outcome, "post")

\* requests.post(_BIOCHAM_URL, ...); requests' own exceptions are IOErrors.
Post == \E outcome \in {"ok", "IOError"} : Statement("post", outcome, "process")

\* process_biocham_output(...) and return(sbml).
Process ==
    /\ controller.pc = "process"
    /\ \E outcome \in {"ok", "NameError", "ValueError"} :
           controller' = IF outcome = "ok"
                         THEN [controller EXCEPT !.pc = "finally", !.result = "sbml"]
                         ELSE [controller EXCEPT !.pc = "except",
                                                 !.raised = outcome,
                                                 !.pending = outcome]
    /\ UNCHANGED <<converter_vars, helper>>

\* except IOError as err: print(...); any other exception passes through.
Except ==
    /\ controller.pc = "except"
    /\ controller' = IF controller.pending = "IOError"
                     THEN [controller EXCEPT !.pc = "finally", !.printed = TRUE,
                                             !.pending = "none"]
                     ELSE [controller EXCEPT !.pc = "finally"]
    /\ UNCHANGED <<converter_vars, helper>>

\* finally: os.unlink(xpp_file.name), then the return or the exception.
Finally ==
    /\ controller.pc = "finally"
    /\ controller' = IF controller.xpp_file = <<>>
                     THEN [controller EXCEPT !.pc = "ended",
                                             !.pending = "UnboundLocalError"]
                     ELSE [controller EXCEPT
                              !.pc = "ended",
                              !.files = unlink(controller.files, controller.xpp_file),
                              !.result = IF controller.pending # "none" THEN "none"
                                         ELSE IF controller.result = "sbml"
                                         THEN "sbml" ELSE "None"]
    /\ UNCHANGED <<converter_vars, helper>>

InitController == InitHelper

NextController ==
    \/ build_reaction_model
    \/ NamedTemporaryFile
    \/ Convert
    \/ Write
    \/ Open
    \/ Post
    \/ Process
    \/ Except
    \/ Finally

SpecController == InitController /\ [][NextController]_vars

\* ------------------------------------------------------------------------
\* Properties.
\* ------------------------------------------------------------------------

\* The translation is past the loop over the initial conditions.
PastStates == pc \in {"rules", "sweep", "done"}

\* C1: for an initial-condition array that is a row or a column vector of
\* length N, the translation creates exactly N state entities, named
\* <assigned_var><sep><i> for i = 1..N, in ascending order of i: after k
\* turns of the loop the state entities are those of 1..k, and once the
\* loop is over they are those of 1..N.
C1_StateEntitiesAscending ==
    (pc = "states" \/ PastStates) =>
        LET done == IF pc = "states" THEN loc.i ELSE input.n
        IN  StateIds = [i \in 1..done |->
                           loc.assigned_var \o Repeat("_", loc.underscores)
                               \o NatToStr(i)]

C1_Witness ==
    /\ pc = "done"
    /\ input.ic_shape = "col"
    /\ input.n >= 2
    /\ Len(StateIds) = input.n

\* The names of the calls of a scope and of the scopes nested in it.
RECURSIVE CallNames(_)
CallNames(scope) ==
    {scope.calls[i].k : i \in 1..Len(scope.calls)}
        \cup UNION {CallNames(scope.functions[i].v) : i \in 1..Len(scope.functions)}

NoOdeCallFound ==
    /\ failure.kind = "SystemExit"
    /\ failure.msg = "Could not locate a call to a Matlab function in the file."

\* C10: a translation fails for want of an ode call if and only if no call
\* of the working scope or of a scope nested in it has a name that starts
\* with "ode"; the call selected otherwise has such a name; and the failure
\* comes before any entity of the model is created.
C10_NoOdeCallIff ==
    pc # "idle" =>
        LET names == CallNames(working_scope)
            none == \A name \in names : ~(Len(name) >= 3 /\ SubSeq(name, 1, 3) = T_ode)
        IN  /\ NoOdeCallFound <=> none
            /\ ~none => /\ loc.ode_function \in names
                        /\ SubSeq(loc.ode_function, 1, 3) = T_ode
            /\ NoOdeCallFound =>
                  entities = <<>> /\ init_assigns = <<>> /\ rate_rules = <<>>

C10_Witness ==
    /\ NoOdeCallFound
    /\ input.variant = "upper_ode"
    /\ CallNames(working_scope) = {T_ODE45}

\* What the first translation of the tree produced.
First == prev[1]

\* C2: translating the same scope tree a second time yields the same
\* model: the separator length, the ids of the state entities and the
\* variables of the rate rules of the second run are those of the first,
\* also when the first run synthesized a scope for an anonymous handle with
\* an array body.
C2_SecondRunIdentical ==
    (run = 2 /\ pc \in {"done", "failed"}) =>
        /\ First.pc = pc
        /\ First.underscores = loc.underscores
        /\ First.state_ids = StateIds
        /\ First.rule_vars = RuleVariables

\* The identifiers a scope and the scopes nested in it declare: assigned
\* names, parameter names, output names and function names.
RECURSIVE Identifiers(_)
Identifiers(scope) ==
    {scope.assignments[i].k : i \in 1..Len(scope.assignments)}
        \cup {scope.parameters[i] : i \in 1..Len(scope.parameters)}
        \cup {scope.returns[i] : i \in 1..Len(scope.returns)}
        \cup {scope.functions[i].k : i \in 1..Len(scope.functions)}
        \cup UNION {Identifiers(scope.functions[i].v) : i \in 1..Len(scope.functions)}

\* C3: the separator length of a run is strictly greater than the longest
\* run of underscores in any identifier of the scope tree: assigned names,
\* parameter names, output names and function names, in the working scope
\* and the scopes nested in it.
C3_SeparatorExceedsEveryIdentifier ==
    pc = "call site" =>
        \A name \in Identifiers(working_scope) : loc.underscores > LongestRun(name)

\* The script as it was parsed, before any translation.
Source == ScopeAt(MkTree(input), get_function_scope(MkTree(input)))

\* The names the run generated: the ids of the flattened entries, the names
\* of the synthesized functions and of their output variables.
GeneratedNames ==
    {entities[i].id : i \in {j \in 1..Len(entities) :
                                /\ entities[j].origin # "compartment"
                                /\ entities[j].id # entities[j].var}}
        \cup {AnonName(c) : c \in 1..anon_counter}
        \cup {AnonName(c) \o Repeat("_", loc.underscores) \o <<"o", "u", "t">> :
                 c \in 1..anon_counter}

\* C4: no name generated during a run equals an identifier of the source,
\* and no function the user declared is replaced by a synthesized scope.
C4_GeneratedNamesAreFresh ==
    (run = 1 /\ pc # "idle") =>
        /\ GeneratedNames \cap Identifiers(Source) = {}
        /\ \A i \in 1..Len(Source.functions) :
              /\ Has(working_scope.functions, Source.functions[i].k)
              /\ Get(working_scope.functions, Source.functions[i].k)
                    = Source.functions[i].v

\* C5: the ids of the entities of one run are pairwise distinct: the
\* compartment, the state entities and the parameters of the sweep.
C5_EntityIdsUnique ==
    \A i, j \in 1..Len(entities) : i # j => entities[i].id # entities[j].id

\* More than one row, and more than one entry in a row.
IsTrueMatrix(matrix) ==
    /\ Len(matrix.rows) > 1
    /\ \E r \in 1..Len(matrix.rows) : Len(matrix.rows[r]) > 1

\* C6: a derivative function whose output array is a true matrix makes the
\* translation fail, and no rate rule is made from such an array.
C6_MatrixRejected ==
    (pc \in {"rules", "sweep", "done"} /\ IsTrueMatrix(var_def)) =>
        RuleVariables = <<>> /\ pc # "done"

\* The reference to x in the first derivative formula, a - b*x(...).
FirstReference == mloop_entry(var_def, 0).args[2].args[2]

\* A subscript that is a numeric literal, or an identifier whose assignment
\* leads to one in at most depth steps.
RECURSIVE ResolvesToLiteral(_, _, _)
ResolvesToLiteral(element, assignments, depth) ==
    IF element.kind = "number" THEN TRUE
    ELSE IF element.kind = "identifier" /\ depth > 0
    THEN /\ Has(assignments, element.name)
         /\ ResolvesToLiteral(Get(assignments, element.name), assignments, depth - 1)
    ELSE FALSE

\* The literal such a subscript stands for.
RECURSIVE LiteralOf(_, _, _)
LiteralOf(element, assignments, depth) ==
    IF element.kind = "number" \/ depth = 0 THEN element.name
    ELSE LiteralOf(Get(assignments, element.name), assignments, depth - 1)

\* C7: flattening a reference to a name of type 'variable' succeeds exactly
\* when every subscript is a numeric literal or an identifier that leads
\* through the assignments to a numeric literal, and the name it returns
\* carries the index of every subscript; any other subscript makes it raise.
C7_FlattenIffSubscriptsResolve ==
    (pc = "rules" /\ loc.i = 0
        /\ inferred_type(FirstReference.name, function_scope) = "variable") =>
        LET assignments == get_all_assignments(function_scope)
            depth == Len(assignments)
            subs == FirstReference.args
            flat == munge_reference(FirstReference, function_scope, loc.underscores)
            resolves == \A i \in 1..Len(subs) :
                            ResolvesToLiteral(subs[i], assignments, depth)
        IN  /\ flat # Raise <=> resolves
            /\ flat # Raise =>
                  flat = FirstReference.name \o Repeat("_", loc.underscores - 1)
                            \o Flatten([i \in 1..Len(subs) |->
                                   <<"_">> \o LiteralOf(subs[i], assignments, depth)])

\* The entities the sweep made for a variable.
Swept(name) ==
    {j \in 1..Len(entities) : entities[j].origin = "sweep" /\ entities[j].var = name}

DesignExample ==
    [variant |-> "base", ic_shape |-> "col", n |-> 2, dv_shape |-> "col", m |-> 2]

\* The rate rules as pairs of variable and formula.
Rules ==
    IF format = "sbml"
    THEN {<<rate_rules[i].variable, rate_rules[i].formula>> : i \in 1..Len(rate_rules)}
    ELSE {<<entities[i].id, entities[i].rate_rule>> :
             i \in {j \in 1..Len(entities) : entities[j].rate_rule # <<>>}}

\* C9: for the script of the design comment the model holds exactly the
\* compartment comp1 of size 1, the state entities x_1 and x_2 with initial
\* value 0, the parameters a = 0.6 and b = 0.348, and the rate rules
\* x_1' = a - b*x_1 and x_2' = a*x_1; there is no entity for tspan, xinit,
\* dx, t or x.
C9_DesignExampleModel ==
    (pc = "done" /\ input = DesignExample) =>
        /\ Len(entities) = 5
        /\ {<<entities[i].origin, entities[i].id, entities[i].value>> :
               i \in 1..Len(entities)}
              = {<<"compartment", T_comp1, 1000>>,
                 <<"state", <<"x", "_", "1">>, 0>>,
                 <<"state", <<"x", "_", "2">>, 0>>,
                 <<"sweep", T_a, 600>>,
                 <<"sweep", T_b, 348>>}
        /\ \A i \in 1..Len(entities) :
              /\ entities[i].origin = "compartment" =>
                    entities[i].SBML_type = "Compartment"
              /\ entities[i].origin = "sweep" => entities[i].SBML_type = "Parameter"
              /\ entities[i].origin = "state" =>
                    entities[i].SBML_type
                        = (IF species_mode THEN "Species" ELSE "Parameter")
              /\ entities[i].id \notin {T_tspan, T_xinit, T_dx, T_t, T_x}
        /\ Rules = {<<<<"x", "_", "1">>, <<"a", "-", "b", "*", "x", "_", "1">>>>,
                    <<<<"x", "_", "2">>, <<"a", "*", "x", "_", "1">>>>}
        /\ format = "sbml" => Len(rate_rules) = 2
        /\ init_assigns = <<>>

C9_Witness ==
    /\ pc = "done"
    /\ input = DesignExample
    /\ Len(entities) = 5
    /\ Cardinality(Rules) = 2

\* Whether the call site has been computed in this run.
PastCallSite == pc \notin {"idle", "call site"}

\* The scopes of a tree: the scope itself and the scopes nested in it.
RECURSIVE Scopes(_)
Scopes(scope) ==
    {scope} \cup UNION {Scopes(scope.functions[i].v) : i \in 1..Len(scope.functions)}

\* The left-hand sides, anywhere in the tree of the working scope, of the
\* assignments whose right-hand side mentions the name.
CallSites(name) ==
    UNION {{sc.assignments[i].k :
               i \in {j \in 1..Len(sc.assignments) :
                         name_mentioned_in_rhs(name, sc.assignments[j].v)}} :
           sc \in Scopes(working_scope)}

\* C11: for a matched ode* call that is the right-hand side of an
\* assignment anywhere in the scope tree, in the working scope or in a scope
\* nested in it, the lookup of the call site returns the left-hand side of
\* such an assignment and never comes back empty.
C11_CallSiteFoundAnywhere ==
    (pc = "call site" /\ CallSites(loc.ode_function) # {}) =>
        get_lhs_for_rhs(loc.ode_function, working_scope)
            \in CallSites(loc.ode_function)

\* The second name of a bracketed output list: the text between the first
\* comma and the comma or the bracket that follows it.
SecondName(lhs) ==
    LET commas == {i \in 1..Len(lhs) : lhs[i] = ","}
        first == CHOOSE i \in commas : \A j \in commas : i <= j
        ends == {i \in (first + 1)..Len(lhs) : lhs[i] \in {",", "]"}}
        end == CHOOSE i \in ends : \A j \in ends : i <= j
    IN  SubSeq(lhs, first + 1, end - 1)

\* C12: the assigned variable taken from the left-hand side of the call
\* site is the second name of the output list, for every output list of two
\* or more names: x for [t,x] and for [t,x,te].
C12_AssignedVarIsSecondName ==
    (PastCallSite /\ loc.assigned_var # <<>>) =>
        loc.assigned_var
            = SecondName(get_lhs_for_rhs(loc.ode_function, working_scope))

\* Whether the handle has been resolved, or has failed to, in this run.
PastHandle == PastCallSite /\ pc # "handle" /\ loc.assigned_var # <<>>

\* The first argument of the matched call.
HandleArgument == loc.call_arglist[1]

\* A named handle, or an anonymous handle whose body is a call or an array
\* reference.
NamesFunction(value) ==
    \/ value.kind = "function handle"
    \/ value.kind = "anon handle" /\ Body(value).kind = "array or function"

\* The function such a handle names.
NamedBy(value) ==
    IF value.kind = "function handle" THEN value.name ELSE Body(value).name

\* C13: a named handle @f resolves to f, an anonymous handle whose body is
\* a call or an array reference naming g resolves to g, and an identifier
\* the working scope binds to a function handle resolves to what that handle
\* resolves to.
C13_HandleResolvesToName ==
    PastHandle =>
        /\ NamesFunction(HandleArgument) =>
              loc.handle_name = NamedBy(HandleArgument)
        /\ (/\ HandleArgument.kind = "identifier"
            /\ Has(working_scope.assignments, HandleArgument.name)
            /\ NamesFunction(Get(working_scope.assignments, HandleArgument.name))) =>
              loc.handle_name
                  = NamedBy(Get(working_scope.assignments, HandleArgument.name))

C13_Witness ==
    /\ pc = "document"
    /\ input.variant = "var_anon"
    /\ HandleArgument = Id(T_h)
    /\ Get(working_scope.assignments, T_h).kind = "anon handle"
    /\ loc.handle_name = T_f

UnknownIdentifier == "{} is unknown"
CannotResolveHandle == "Could not determine ODE function from call to {}"

\* The first argument is an identifier the working scope does not assign.
ArgumentUnbound ==
    /\ HandleArgument.kind = "identifier"
    /\ ~Has(working_scope.assignments, HandleArgument.name)

\* The first argument is an identifier assigned something that is not a
\* function handle; it is neither a handle nor an identifier; or it is an
\* anonymous handle whose body is neither a call, an array reference nor an
\* array.
ArgumentUnresolvable ==
    \/ /\ HandleArgument.kind = "identifier"
       /\ Has(working_scope.assignments, HandleArgument.name)
       /\ Get(working_scope.assignments, HandleArgument.name).kind
             \notin {"function handle", "anon handle"}
    \/ HandleArgument.kind \notin {"identifier", "function handle", "anon handle"}
    \/ /\ HandleArgument.kind = "anon handle"
       /\ Body(HandleArgument).kind \notin {"array or function", "array ref", "array"}

ArrayBodyHandle ==
    /\ HandleArgument.kind = "anon handle"
    /\ Body(HandleArgument).kind = "array"

\* What the resolution of such a handle does to the functions of the
\* working scope.
SynthesizesScope ==
    (pc = "handle" /\ ArrayBodyHandle) =>
        LET before == working_scope
            after == ScopeAt(tree', loc.ws)
            synth == loc'.handle_name
            out == synth \o Repeat("_", loc.underscores) \o <<"o", "u", "t">>
            made == Get(after.functions, synth)
        IN  /\ pc' = "document"
            /\ synth = AnonName(anon_counter')
            /\ Has(after.functions, synth)
            /\ made.name = synth
            /\ made.parameters = [i \in 1..Len(HandleArgument.args) |->
                                     HandleArgument.args[i].name]
            /\ made.returns = <<out>>
            /\ made.assignments = <<Bind(out, Body(HandleArgument))>>
            /\ get_function_declaration(synth, after) = <<made>>
            /\ Len(after.functions)
                  = Len(before.functions)
                       + (IF Has(before.functions, synth) THEN 0 ELSE 1)
            /\ \A i \in 1..Len(before.functions) :
                  before.functions[i].k # synth =>
                      /\ Has(after.functions, before.functions[i].k)
                      /\ Get(after.functions, before.functions[i].k)
                            = before.functions[i].v
            /\ after.assignments = before.assignments
            /\ after.calls = before.calls

\* C15: resolving an anonymous handle whose body is an array registers one
\* new scope in the functions of the parent scope under the synthesized
\* name; its parameters are the handle's parameter names in order, its only
\* return name is the synthesized name, the run's separator and 'out', its
\* assignments map that name to the array, and looking the returned name up
\* in the parent's functions yields this scope.
C15_SynthesizedScopeRegistered == [][SynthesizesScope]_vars

C15_Witness ==
    /\ pc = "document"
    /\ input.variant = "anon_array"
    /\ ArrayBodyHandle
    /\ loc.handle_name = AnonName(anon_counter)
    /\ Has(working_scope.functions, loc.handle_name)
    /\ function_scope.parameters = <<T_t, T_x>>

\* C16: the counter that names the synthesized functions starts afresh in
\* every translation: the first name a run synthesizes is anon001, however
\* many names earlier runs in the same process have synthesized.
C16_CounterFreshPerRun ==
    (PastHandle /\ ArrayBodyHandle /\ loc.handle_name # <<>>) =>
        loc.handle_name = AnonName(1)

\* The failures that carry a message for the user: fail() and the error of
\* a subscript that is not a literal.
DocumentedFailures == {"SystemExit", "ValueError"}

\* C17: a translation that returns no model ends through a documented
\* failure with one message for the user and returns no text; so it does
\* when the initial-condition variable has no assignment in the working
\* scope, when the call has fewer than three arguments, and when the
\* derivative function has fewer than two parameters or no output.
C17_FailuresAreDocumented ==
    pc = "failed" =>
        /\ failure.kind \in DocumentedFailures
        /\ failure.msg # ""
        /\ lines = <<>>

\* C18: the mode the caller chose applies to every state entity of the run,
\* in create_raterule_model, create_xpp_elements and create_xpp_file alike:
\* with use_species false each is a Parameter, with use_species true each is
\* a Species.
C18_SpeciesModeUniform ==
    \A i \in 1..Len(entities) :
        entities[i].origin = "state" =>
            entities[i].SBML_type = (IF use_species THEN "Species" ELSE "Parameter")

\* A file has been written by create_xpp_file.
FileWritten == pc = "done" /\ format = "xpp_file"

\* The lines of the file that start with one of the tags, in their order.
LinesTagged(tags) == SelectSeq(lines, LAMBDA l : l.tag \in tags)

IsConstantParameter(e) == e.SBML_type = "Parameter" /\ e.constant

IsParameterWithoutRule(e) ==
    e.SBML_type = "Parameter" /\ ~e.constant /\ e.rate_rule = <<>>

\* The 'par' line that belongs to an entity.
ParLineOf(e) ==
    IF e.constant /\ e.init_assign # <<>>
    THEN Line("par", e.id, <<>>, e.init_assign)
    ELSE Line("par", e.id, <<e.value>>, <<>>)

\* C19 as stated: a 'par' line for each constant Parameter and for no other
\* entity, never for a Compartment, a Species or a non-constant Parameter;
\* the value is the init_assign formula when there is one and the literal
\* value otherwise.
C19_ParLinesForConstantsOnly ==
    FileWritten =>
        LET written == SelectSeq(entities, IsConstantParameter)
        IN  LinesTagged({"par"}) = [i \in 1..Len(written) |-> ParLineOf(written[i])]

\* C19, amended: a 'par' line for each Parameter that is constant or that
\* is non-constant and has no rate rule, in the order of the entities, and
\* for no other entity: never for a Compartment, a Species or a non-constant
\* Parameter with a rate rule.  For a constant Parameter the value is the
\* init_assign formula when there is one and the literal value otherwise;
\* for a non-constant one it is the literal value.
C19_ParLinesForParametersWithoutRule ==
    FileWritten =>
        LET written == SelectSeq(entities,
                                 LAMBDA e : IsConstantParameter(e)
                                               \/ IsParameterWithoutRule(e))
        IN  LinesTagged({"par"}) = [i \in 1..Len(written) |-> ParLineOf(written[i])]

C19_Witness ==
    /\ FileWritten
    /\ input.variant = "arr_param"
    /\ \E i \in 1..Len(entities) : IsParameterWithoutRule(entities[i])
    /\ \E i \in 1..Len(entities) : IsConstantParameter(entities[i])
    /\ \E i \in 1..Len(entities) : entities[i].SBML_type = "Species"
    /\ Len(LinesTagged({"par"})) = 4

RuleComment == "# {}:   id = {}, defined by rule"

\* A non-constant Species or Parameter with a rate rule.
HasRateRule(e) ==
    /\ e.SBML_type \in {"Species", "Parameter"}
    /\ ~e.constant
    /\ e.rate_rule # <<>>

\* C20: an 'init' line, with the 'd/dt' line of the same id right after it,
\* is written for exactly the non-constant entities with a rate rule that is
\* not empty, in their order, and for no entity whose rate rule is empty;
\* the comments that close the file name the same entities in that order.
C20_OdeLinesForRuledEntities ==
    FileWritten =>
        LET ruled == SelectSeq(entities, HasRateRule)
            closing == LinesTagged({RuleComment})
        IN  /\ LinesTagged({"init", "d/dt"})
                  = Flatten([i \in 1..Len(ruled) |->
                                <<Line("init", ruled[i].id, <<ruled[i].value>>, <<>>),
                                  Line("d/dt", ruled[i].id, <<>>, ruled[i].rate_rule)>>])
            /\ \A k \in 1..Len(lines) :
                  lines[k].tag = "init" =>
                      /\ k < Len(lines)
                      /\ lines[k + 1].tag = "d/dt"
                      /\ lines[k + 1].id = lines[k].id
            /\ [k \in 1..Len(closing) |-> closing[k].id]
                  = [i \in 1..Len(ruled) |-> ruled[i].id]

\* The state entities made so far, in the order of their creation.
StateEntities == SelectSeq(entities, LAMBDA e : e.origin = "state")

\* The initial assignment recorded for an entity: the formula of the SBML
\* initial assignment of its id, or the init_assign field of the XPP element.
InitialAssignmentOf(e) ==
    IF format = "sbml"
    THEN {init_assigns[k].formula :
             k \in {j \in 1..Len(init_assigns) : init_assigns[j].symbol = e.id}}
    ELSE IF e.init_assign = <<>> THEN {} ELSE {e.init_assign}

\* C21: a state entity made from a numeric element of the initial-condition
\* vector has the literal as its value and no initial assignment; one made
\* from any other element has the value 0 and the translated formula as its
\* initial assignment.  Its rate-rule field is left to the derivative step.
\* So it is in the SBML and in the XPP form.
C21_InitialConditionRecorded ==
    pc = "states" =>
        \A i \in 1..Len(StateEntities) :
            LET e == StateEntities[i]
                element == mloop_entry(init_cond, i - 1)
            IN  /\ e.rate_rule = <<>>
                /\ IF HasKey(element, "number")
                   THEN /\ e.value = terminal_value(element)
                        /\ InitialAssignmentOf(e) = {}
                   ELSE /\ e.value = 0
                        /\ InitialAssignmentOf(e)
                              = {make_formula(element, function_scope, loc.underscores)}

\* The rate rules recorded so far, in the order in which the model holds them.
RecordedRules ==
    IF format = "sbml" THEN rate_rules
    ELSE LET ruled == SelectSeq(entities, LAMBDA e : e.rate_rule # <<>>)
         IN  [i \in 1..Len(ruled) |->
                 [variable |-> ruled[i].id, formula |-> ruled[i].rate_rule]]

\* The loop over the derivative array has gone through every element.
RuleLoopDone == pc = "rules" /\ loc.i >= vector_length(var_def)

\* C22: once the loop over a derivative array of length M is through, the
\* model holds exactly one rate rule per index i in 1..M, for the variable
\* <assigned_var><sep><i>, with the renamed translation of element i as its
\* formula, and no other rate rule.
C22_OneRulePerIndex ==
    RuleLoopDone =>
        RecordedRules
            = [i \in 1..vector_length(var_def) |->
                  make_raterule(loc.assigned_var, loc.dependent_var, i - 1,
                                mloop_entry(var_def, i - 1), loc.underscores,
                                function_scope)]

\* C25: every rate rule is for a state entity of the same run, and as many
\* rate rules are held as the derivative array has elements.
C25_RulesMatchStateEntities ==
    RuleLoopDone =>
        /\ \A i \in 1..Len(RuleVariables) : InSeq(RuleVariables[i], StateIds)
        /\ Len(RuleVariables) = vector_length(var_def)

\* The characters that end a name in a formula.
Punctuation == {"+", "-", "*", "/", "^", "(", ")", "[", "]", ",", ":", ";", " "}

\* The names and numbers of a formula, left to right: the maximal runs of
\* characters other than punctuation.
RECURSIVE Tokens(_)
Tokens(s) ==
    IF s = <<>> THEN <<>>
    ELSE IF Head(s) \in Punctuation THEN Tokens(Tail(s))
    ELSE LET RECURSIVE extent(_)
             extent(i) == IF i <= Len(s) /\ s[i] \notin Punctuation
                          THEN extent(i + 1) ELSE i - 1
             last == extent(1)
         IN  <<SubSeq(s, 1, last)>> \o Tokens(SubSeq(s, last + 1, Len(s)))

\* tok is <name><separator><digits>.
IsIndexedName(tok, name, underscores) ==
    LET prefix == name \o Repeat("_", underscores)
    IN  /\ StartsWith(tok, prefix)
        /\ Len(tok) > Len(prefix)
        /\ \A j \in (Len(prefix) + 1)..Len(tok) : IsDigit(tok[j])

\* The rate-rule formulas the model holds for index k of the derivative array.
RecordedFormulas(k) ==
    IF format = "sbml"
    THEN {rate_rules[j].formula : j \in {k} \cap (1..Len(rate_rules))}
    ELSE LET id == loc.assigned_var \o Repeat("_", loc.underscores) \o NatToStr(k)
         IN  {entities[j].rate_rule :
                 j \in {h \in 1..Len(entities) :
                           entities[h].origin = "state" /\ entities[h].id = id}}

\* What the formula translator makes of element k of the derivative array.
Translated(k) == make_formula(mloop_entry(var_def, k - 1), function_scope, loc.underscores)

\* The elements of the derivative array that have been through the rule loop.
RuledIndices == IF pc \in {"rules", "sweep", "done"} THEN 1..loc.i ELSE {}

\* C23: in every recorded rate-rule formula each name <dependent_var><sep>
\* <digits> of the translated element has become <assigned_var><sep><same
\* digits>, and when the two variables differ no name <dependent_var><sep>
\* <digits> is left in the formula.
C23_DependentRenamedToAssigned ==
    \A k \in RuledIndices : \A formula \in RecordedFormulas(k) :
        LET before == Tokens(Translated(k))
            after == Tokens(formula)
            dep == loc.dependent_var \o Repeat("_", loc.underscores)
            new == loc.assigned_var \o Repeat("_", loc.underscores)
        IN  /\ Len(after) = Len(before)
            /\ \A t \in 1..Len(before) :
                   IsIndexedName(before[t], loc.dependent_var, loc.underscores)
                       => after[t] = new \o SubSeq(before[t], Len(dep) + 1, Len(before[t]))
            /\ loc.dependent_var # loc.assigned_var =>
                   \A t \in 1..Len(after) :
                       ~IsIndexedName(after[t], loc.dependent_var, loc.underscores)

C23_Witness ==
    /\ pc = "done"
    /\ loc.dependent_var # loc.assigned_var
    /\ \E k \in RuledIndices :
           /\ RecordedFormulas(k) # {}
           /\ \E t \in 1..Len(Tokens(Translated(k))) :
                  IsIndexedName(Tokens(Translated(k))[t], loc.dependent_var,
                                loc.underscores)

\* C24: the renaming leaves every name of the translated element that is not
\* <dependent_var><sep><digits> exactly as the translator produced it, a name
\* such as ax_1 included when the dependent variable is x.
C24_OtherNamesUntouched ==
    \A k \in RuledIndices : \A formula \in RecordedFormulas(k) :
        LET before == Tokens(Translated(k))
            after == Tokens(formula)
        IN  /\ Len(after) = Len(before)
            /\ \A t \in 1..Len(before) :
                   ~IsIndexedName(before[t], loc.dependent_var, loc.underscores)
                       => after[t] = before[t]

\* The assignments the sweep has gone through so far.
SweptAssignments ==
    LET all == sweep_vars(working_scope, function_scope)
    IN  {all[i] : i \in 1..(Len(all) - Len(loc.all_vars))}

\* The names the sweep is to make no entity for.
Excluded(name) ==
    \/ name \in {loc.init_cond_var, loc.output_var, loc.assigned_var,
                 loc.call_arglist[2].name}
    \/ \E c \in {"[", "(", "{"} : Contains(name, c)

SweepEntitiesOf(name) ==
    {i \in 1..Len(entities) : entities[i].origin = "sweep" /\ entities[i].var = name}

TypeWalkingUp(name) ==
    IF Has(function_scope.types, name) THEN Get(function_scope.types, name)
    ELSE IF Has(working_scope.types, name) THEN Get(working_scope.types, name)
    ELSE "None"

\* C27: a reference name(subscripts) is flattened exactly when the type of
\* name, looked up in the enclosing scope and then in its parent scopes, is
\* 'variable'; otherwise it is returned as the plain text of the reference.
C27_FlattenedIffVariableSomewhere ==
    (pc = "rules" /\ loc.i = 0) =>
        LET result == munge_reference(FirstReference, function_scope, loc.underscores)
        IN  result = make_key(FirstReference)
                <=> TypeWalkingUp(FirstReference.name) # "variable"

\* C28: a reference to a name of type 'variable' with two or more subscripts
\* makes the translation fail; no flattened name is returned for it.
C28_TwoSubscriptsRejected ==
    (pc = "rules" /\ loc.i = 0
        /\ inferred_type(FirstReference.name, function_scope) = "variable"
        /\ Len(FirstReference.args) >= 2) =>
        munge_reference(FirstReference, function_scope, loc.underscores) = Raise

\* C29: a call of the wrapper with fewer arguments than the function has
\* parameters ends in no exception other than the stored TypeError, and when
\* the call before it had all its arguments and the function raised
\* TypeError, it raises that very TypeError again without calling the
\* function.
C29_ShortCallReraisesStored ==
    helper.last.short =>
        /\ helper.last.raised # "none" =>
               helper.last.raised = "TypeError" /\ helper.exc_info = <<helper.last.id>>
        /\ (~helper.before.short /\ helper.before.raised = "TypeError") =>
               /\ ~helper.last.called_f
               /\ helper.last.raised = "TypeError"
               /\ helper.last.id = helper.before.id

\* C30: once the temporary file exists, it is gone when the method has
\* ended, however it ended: a return with the model, an exception that
\* propagates, or an IOError, which is printed and turned into the result
\* None.
C30_TempFileUnlinked ==
    (controller.pc = "ended" /\ controller.xpp_file # <<>>) =>
        /\ controller.xpp_file \notin controller.files
        /\ controller.raised = "IOError" =>
               /\ controller.printed
               /\ controller.result = "None"
               /\ controller.pending = "none"
        /\ controller.raised \notin {"none", "IOError"} =>
               controller.pending = controller.raised /\ controller.result = "none"
        /\ controller.raised = "none" => controller.result = "sbml"

\* The method has ended after an IOError raised while the file existed.
C30_Witness ==
    /\ controller.pc = "ended"
    /\ controller.xpp_file # <<>>
    /\ controller.raised = "IOError"
    /\ controller.printed

====
